---- MODULE Spec2Model ----
(***************************************************************************)
(* Model of the any.io service layer: ProductsService and ReviewsService   *)
(* over a relational store and a TTL cache, and the OrderByTypePipe.       *)
(* Every handler is an async function; a request is split at the awaits    *)
(* where another request can run in between.                               *)
(***************************************************************************)
EXTENDS Integers, Sequences, FiniteSets, TLC

VARIABLES
    products,   \* rows of the product table
    reviews,    \* rows of the review table
    nextPid,    \* next generated product id
    nextRid,    \* next generated review id
    cache,      \* the cache store: key -> [val, ttl]
    filled,     \* per live listing entry: the page its filling call returned
    qlog,       \* per listing key: the database query whose page was stored
                \* under it last
    req,        \* per request slot: the handler in flight and its locals
    done,       \* the last completed call: arguments, outcome, observations
    calls,      \* number of calls issued so far
    pipeIn,     \* the value handed to OrderByTypePipe.transform
    pipeOut     \* its outcome

vars == <<products, reviews, nextPid, nextRid, cache, filled, qlog, req, done,
          calls, pipeIn, pipeOut>>

(* ------------------------------ bounds -------------------------------- *)
MaxCalls == 2
MaxListingCalls == 3
MaxPid == 3
MaxRid == 3
TtlTicks == 1
MaxTokenLen == 4

Procs == {1, 2}
Users == {1, 2, 3}
ProductIds == 1..MaxPid
ReviewIds == 1..MaxRid

(* ------------------- collaborators outside the services --------------- *)
\* Category rows; only ids matter.  CategoryIds are the ids a caller may send.
Categories == {1, 2}
CategoryIds == {1, 2, 3}
NoCategory == 0

\* Company rows as company id -> owning user id.  User 3 owns no company.
CompanyUser == (10 :> 1) @@ (20 :> 2)
Companies == DOMAIN CompanyUser

\* CategoriesService.findById: the category row, or nothing.
CategoriesService_findById(categoryId) ==
    {c \in Categories : c = categoryId}

\* CompaniesService.findByUserId: the company whose user is userId, or nothing.
CompaniesService_findByUserId(userId) ==
    {c \in Companies : CompanyUser[c] = userId}

\* CompaniesService.findById: the company row with that id, or nothing.
CompaniesService_findById(companyId) ==
    {c \in Companies : c = companyId}

FOUR_MINUTES == TtlTicks
ReviewsTtl == TtlTicks

(* ------------------------------ cache ---------------------------------- *)
NoQuery == [orderBy |-> "", orderByType |-> "", limit |-> 0, page |-> 0,
            minPrice |-> 0, maxPrice |-> 0, categoryId |-> 0,
            lastCategories |-> <<>>, productId |-> 0]

getProductCacheKey(productId) ==
    [kind |-> "product", id |-> productId, q |-> NoQuery]

getReviewCacheKey(id) ==
    [kind |-> "review", id |-> id, q |-> NoQuery]

getProductsCacheKey(q) ==
    [kind |-> "products", id |-> 0, q |-> q]

getReviewsCacheKey(q) ==
    [kind |-> "reviews", id |-> 0, q |-> q]

\* cache.get: an entry is served while its ttl has not run out.
CacheHit(key) == key \in DOMAIN cache

CacheGet(key) == cache[key].val

\* cache.set(key, val, ttl): overwrites, restarting the ttl.
CacheSetMutant(key, val, ttl) ==
    [k \in {key} |-> [val |-> val, ttl |-> ttl]]

CacheSet(key, val, ttl) ==
    [k \in DOMAIN cache \cup {key} |->
        IF k = key THEN [val |-> val, ttl |-> ttl] ELSE cache[k]]

(* ------------------------------ requests ------------------------------- *)
Idle == [pc |-> "idle"]

\* The database query an entry came from: its kind, its parameters, the
\* request as written, the page it returned, whether storing the page
\* replaced a live entry holding another page, and whether it followed an
\* entry under the same key that had expired.
NoSrc == [kind |-> "none", q |-> NoQuery, raw |-> NoQuery, page |-> <<>>,
          over |-> FALSE, again |-> FALSE]

Logged(key, kind, q, raw, page) ==
    [k \in DOMAIN qlog \cup {key} |->
        IF k = key
        THEN [kind |-> kind, q |-> q, raw |-> raw, page |-> page,
              over |-> key \in DOMAIN cache /\ cache[key].val # page,
              again |-> key \in DOMAIN qlog /\ key \notin DOMAIN cache]
        ELSE qlog[k]]

NoDone == [op |-> "none", user |-> 0, id |-> 0, q |-> NoQuery, dto |-> 0,
           out |-> "none", hit |-> FALSE, res |-> {}, pre |-> {}, post |-> {},
           wrote |-> FALSE, affected |-> 0, page |-> <<>>, keys |-> <<>>,
           raw |-> NoQuery, stored |-> <<>>, src |-> NoSrc]

ProductRow(id) == {r \in products : r.id = id}
ReviewRow(id) == {r \in reviews : r.id = id}

TheOne(S) == CHOOSE x \in S : TRUE

\* A call returns or throws: record it and free the slot.
Return(p, d) ==
    /\ done' = d
    /\ req' = [req EXCEPT ![p] = Idle]

\* Slots are interchangeable: a new call takes the lowest free one.
CanCall(p) ==
    /\ req[p].pc = "idle"
    /\ \A o \in Procs : o < p => req[o].pc # "idle"

Issue(p, r) ==
    /\ req' = [req EXCEPT ![p] = r]
    /\ calls' = calls + 1

(* -------------------- ProductsService.findById ------------------------- *)
\* The lookup is shared by findById, update and delete: `op` says which
\* handler the lookup belongs to, and ProductFound continues that handler.
ProductsService_findById_call(p, productId) ==
    /\ CanCall(p)
    /\ Issue(p, [pc |-> "p.get", op |-> "p.findById", user |-> 0,
                 id |-> productId, dto |-> 0, hit |-> FALSE, res |-> {}])
    /\ UNCHANGED <<filled, qlog, products, reviews, nextPid, nextRid, cache, done,
                   pipeIn, pipeOut>>

ProductFound(p, row, hit) ==
    IF req[p].op = "p.findById"
    THEN Return(p, [NoDone EXCEPT !.op = "p.findById", !.id = req[p].id,
                                  !.out = "ok", !.hit = hit, !.res = {row}])
    ELSE /\ req' = [req EXCEPT ![p] = [@ EXCEPT !.pc = "p.write",
                                                !.hit = hit, !.res = {row}]]
         /\ UNCHANGED done

\* lines 115-120: cache.get, return the cached product on a hit.
ProductsService_findById_get(p) ==
    /\ req[p].pc = "p.get"
    /\ LET key == getProductCacheKey(req[p].id) IN
       IF CacheHit(key)
       THEN ProductFound(p, CacheGet(key), TRUE)
       ELSE /\ req' = [req EXCEPT ![p] = [@ EXCEPT !.pc = "p.findOne"]]
            /\ UNCHANGED done
    /\ UNCHANGED <<filled, qlog, products, reviews, nextPid, nextRid, cache, calls,
                   pipeIn, pipeOut>>

\* lines 122-140: findOne, BadRequest when there is no row, else cache.set.
ProductsService_findById_findOne(p) ==
    /\ req[p].pc = "p.findOne"
    /\ LET row == ProductRow(req[p].id) IN
       IF row = {}
       THEN /\ Return(p, [NoDone EXCEPT !.op = req[p].op, !.user = req[p].user,
                                        !.id = req[p].id, !.dto = req[p].dto,
                                        !.out = "BadRequest",
                                        !.pre = row, !.post = row])
            /\ UNCHANGED cache
       ELSE /\ cache' = CacheSet(getProductCacheKey(req[p].id), TheOne(row),
                                 FOUR_MINUTES)
            /\ ProductFound(p, TheOne(row), FALSE)
    /\ UNCHANGED <<filled, qlog, products, reviews, nextPid, nextRid, calls,
                   pipeIn, pipeOut>>

(* -------------------- ProductsService.update --------------------------- *)
ProductsService_update_call(p, userId, productId, dto) ==
    /\ CanCall(p)
    /\ Issue(p, [pc |-> "p.get", op |-> "p.update", user |-> userId,
                 id |-> productId, dto |-> dto, hit |-> FALSE, res |-> {}])
    /\ UNCHANGED <<filled, qlog, products, reviews, nextPid, nextRid, cache, done,
                   pipeIn, pipeOut>>

\* lines 186-195: the owner gate of update, on the resolved product's company.
UpdateGateMutant(product, userId) ==
    CompaniesService_findByUserId(userId) # {}

UpdateGate(product, userId) ==
    LET company == CompaniesService_findById(product.company) IN
    /\ company # {}
    /\ CompanyUser[TheOne(company)] = userId

\* productsRepo.update({id}, dto): the rows after the write.
ProductsRepo_update(productId, dto) ==
    {IF r.id = productId THEN [r EXCEPT !.price = dto] ELSE r : r \in products}

\* lines 186-208: gate, single-row update, affected check.
ProductsService_update_write(p) ==
    /\ req[p].pc = "p.write"
    /\ req[p].op = "p.update"
    /\ LET product == TheOne(req[p].res)
           row == ProductRow(req[p].id)
           d == [NoDone EXCEPT !.op = "p.update", !.user = req[p].user,
                               !.id = req[p].id, !.dto = req[p].dto,
                               !.hit = req[p].hit, !.res = req[p].res,
                               !.pre = row]
       IN
       IF ~UpdateGate(product, req[p].user)
       THEN /\ Return(p, [d EXCEPT !.out = "Unauthorized", !.post = row])
            /\ UNCHANGED products
       ELSE /\ products' = ProductsRepo_update(req[p].id, req[p].dto)
            /\ Return(p, [d EXCEPT
                 !.out = IF row = {} THEN "InternalServerError" ELSE "ok",
                 !.wrote = TRUE,
                 !.affected = Cardinality(row),
                 !.post = {r \in ProductsRepo_update(req[p].id, req[p].dto) :
                              r.id = req[p].id}])
    /\ UNCHANGED <<filled, qlog, reviews, nextPid, nextRid, cache, calls, pipeIn, pipeOut>>

(* -------------------- ProductsService.delete --------------------------- *)
ProductsService_delete_call(p, userId, productId) ==
    /\ CanCall(p)
    /\ Issue(p, [pc |-> "p.get", op |-> "p.delete", user |-> userId,
                 id |-> productId, dto |-> 0, hit |-> FALSE, res |-> {}])
    /\ UNCHANGED <<filled, qlog, products, reviews, nextPid, nextRid, cache, done,
                   pipeIn, pipeOut>>

\* lines 220-221: the company is looked up by the acting user, and its
\* user is compared with that same user.
DeleteGate(product, userId) ==
    LET company == CompaniesService_findByUserId(userId) IN
    CompanyUser[TheOne(company)] = userId

\* productsRepo.delete({id}): the rows after the write.
ProductsRepo_delete(productId) ==
    {r \in products : r.id # productId}

\* lines 220-232: company lookup, gate, single-row delete.  A user without
\* a company makes `company.user` a property read of null: a TypeError.
ProductsService_delete_write(p) ==
    /\ req[p].pc = "p.write"
    /\ req[p].op = "p.delete"
    /\ LET product == TheOne(req[p].res)
           row == ProductRow(req[p].id)
           d == [NoDone EXCEPT !.op = "p.delete", !.user = req[p].user,
                               !.id = req[p].id, !.hit = req[p].hit,
                               !.res = req[p].res, !.pre = row]
       IN
       IF CompaniesService_findByUserId(req[p].user) = {}
       THEN /\ Return(p, [d EXCEPT !.out = "TypeError", !.post = row])
            /\ UNCHANGED products
       ELSE IF ~DeleteGate(product, req[p].user)
       THEN /\ Return(p, [d EXCEPT !.out = "Unauthorized", !.post = row])
            /\ UNCHANGED products
       ELSE /\ products' = ProductsRepo_delete(req[p].id)
            /\ Return(p, [d EXCEPT !.out = "ok", !.wrote = TRUE,
                                   !.affected = Cardinality(row),
                                   !.post = {}])
    /\ UNCHANGED <<filled, qlog, reviews, nextPid, nextRid, cache, calls, pipeIn, pipeOut>>

(* -------------------- ProductsService.create --------------------------- *)
\* productsRepo.insert: a new row with a generated id.
ProductsRepo_insertMutant(price, categoryId, companyId) ==
    products \cup {[id |-> nextPid, price |-> price,
                    category |-> NoCategory, company |-> companyId]}

ProductsRepo_insert(price, categoryId, companyId) ==
    products \cup {[id |-> nextPid, price |-> price,
                    category |-> categoryId, company |-> companyId]}

\* lines 151-158: the category must exist.
CreateCategoryOk(categoryId) ==
    CategoriesService_findById(categoryId) # {}

\* lines 143-171.  The lookups read rows no handler changes, so the handler
\* is one step.  dto = [price, categoryId].
ProductsService_create(p, userId, dto) ==
    /\ CanCall(p)
    /\ nextPid <= MaxPid
    /\ calls' = calls + 1
    /\ LET company == CompaniesService_findByUserId(userId)
           d == [NoDone EXCEPT !.op = "p.create", !.user = userId,
                               !.id = nextPid, !.dto = dto]
       IN
       IF company = {} \/ ~CreateCategoryOk(dto.categoryId)
       THEN /\ done' = [d EXCEPT !.out = "BadRequest"]
            /\ UNCHANGED <<products, nextPid>>
       ELSE /\ products' = ProductsRepo_insert(dto.price, dto.categoryId,
                                               TheOne(company))
            /\ nextPid' = nextPid + 1
            /\ done' = [d EXCEPT !.out = "ok", !.wrote = TRUE,
                                 !.affected = 1,
                                 !.post = {r \in products' : r.id = nextPid}]
    /\ UNCHANGED <<filled, qlog, reviews, nextRid, cache, req, pipeIn, pipeOut>>

\* lines 317-333, the second definition of create in the file: no category
\* lookup; the row is inserted from the dto and the company only, so it
\* carries no category relation.
ProductsService_create2(p, userId, dto) ==
    /\ CanCall(p)
    /\ nextPid <= MaxPid
    /\ calls' = calls + 1
    /\ LET company == CompaniesService_findByUserId(userId)
           d == [NoDone EXCEPT !.op = "p.create2", !.user = userId,
                               !.id = nextPid, !.dto = dto]
       IN
       IF company = {}
       THEN /\ done' = [d EXCEPT !.out = "BadRequest"]
            /\ UNCHANGED <<products, nextPid>>
       ELSE /\ products' = ProductsRepo_insert(dto.price, NoCategory,
                                               TheOne(company))
            /\ nextPid' = nextPid + 1
            /\ done' = [d EXCEPT !.out = "ok", !.wrote = TRUE,
                                 !.affected = 1,
                                 !.post = {r \in products' : r.id = nextPid}]
    /\ UNCHANGED <<filled, qlog, reviews, nextRid, cache, req, pipeIn, pipeOut>>

(* -------------------- ReviewsService ----------------------------------- *)
LatestCreated ==
    IF reviews = {} THEN 1
    ELSE CHOOSE t \in {r.created : r \in reviews} :
             \A r \in reviews : r.created <= t

\* lines 25-34: insert; created_at is the insert time, which may equal the
\* time of the latest row.  dto = [productId, user, rating].
ReviewsService_create(p, dto, tick) ==
    /\ CanCall(p)
    /\ nextRid <= MaxRid
    /\ calls' = calls + 1
    /\ reviews' = reviews \cup
          {[id |-> nextRid, product |-> dto.productId, user |-> dto.user,
            rating |-> dto.rating, created |-> LatestCreated + tick]}
    /\ nextRid' = nextRid + 1
    /\ done' = [NoDone EXCEPT !.op = "r.create", !.user = dto.user,
                              !.id = nextRid, !.out = "ok", !.wrote = TRUE,
                              !.affected = 1,
                              !.post = {r \in reviews' : r.id = nextRid}]
    /\ UNCHANGED <<filled, qlog, products, nextPid, cache, req, pipeIn, pipeOut>>

ReviewsService_findById_call(p, id) ==
    /\ CanCall(p)
    /\ Issue(p, [pc |-> "r.get", op |-> "r.findById", user |-> 0,
                 id |-> id, dto |-> 0, hit |-> FALSE, res |-> {}])
    /\ UNCHANGED <<filled, qlog, products, reviews, nextPid, nextRid, cache, done,
                   pipeIn, pipeOut>>

ReviewsService_update_call(p, userId, reviewId, dto) ==
    /\ CanCall(p)
    /\ Issue(p, [pc |-> "r.get", op |-> "r.update", user |-> userId,
                 id |-> reviewId, dto |-> dto, hit |-> FALSE, res |-> {}])
    /\ UNCHANGED <<filled, qlog, products, reviews, nextPid, nextRid, cache, done,
                   pipeIn, pipeOut>>

ReviewsService_delete_call(p, userId, id) ==
    /\ CanCall(p)
    /\ Issue(p, [pc |-> "r.get", op |-> "r.delete", user |-> userId,
                 id |-> id, dto |-> 0, hit |-> FALSE, res |-> {}])
    /\ UNCHANGED <<filled, qlog, products, reviews, nextPid, nextRid, cache, done,
                   pipeIn, pipeOut>>

\* The lookup returned `res` (a row or null) to its caller.
ReviewFound(p, res, hit) ==
    IF req[p].op = "r.findById"
    THEN Return(p, [NoDone EXCEPT !.op = "r.findById", !.id = req[p].id,
                                  !.out = "ok", !.hit = hit, !.res = res])
    ELSE /\ req' = [req EXCEPT ![p] = [@ EXCEPT !.pc = "r.write",
                                                !.hit = hit, !.res = res]]
         /\ UNCHANGED done

\* lines 37-43: cache.get, return the cached review on a hit.
ReviewsService_findById_get(p) ==
    /\ req[p].pc = "r.get"
    /\ LET key == getReviewCacheKey(req[p].id) IN
       IF CacheHit(key)
       THEN ReviewFound(p, {CacheGet(key)}, TRUE)
       ELSE /\ req' = [req EXCEPT ![p] = [@ EXCEPT !.pc = "r.findOne"]]
            /\ UNCHANGED done
    /\ UNCHANGED <<filled, qlog, products, reviews, nextPid, nextRid, cache, calls,
                   pipeIn, pipeOut>>

\* lines 45-49: findOneBy; the result (null included) is returned as it is
\* and nothing is stored in the cache.
ReviewsService_findById_findOne(p) ==
    /\ req[p].pc = "r.findOne"
    /\ ReviewFound(p, ReviewRow(req[p].id), FALSE)
    /\ UNCHANGED <<filled, qlog, products, reviews, nextPid, nextRid, cache, calls,
                   pipeIn, pipeOut>>

\* The Review entity: a row read by findOneBy carries its author as
\* review.user.
ReviewAuthor(review) == review.user

\* lines 58, 69: the author gate.
ReviewGateMutant(review, userId) == TRUE

ReviewGate(review, userId) == ReviewAuthor(review) = userId

ReviewsRepo_update(reviewId, dto) ==
    {IF r.id = reviewId THEN [r EXCEPT !.rating = dto] ELSE r : r \in reviews}

ReviewsRepo_delete(id) ==
    {r \in reviews : r.id # id}

\* lines 58-64 and 69-75: gate, then the write; its result is not looked
\* at.  A null review makes `review.user` a property read of null.
ReviewsService_write(p) ==
    /\ req[p].pc = "r.write"
    /\ LET row == ReviewRow(req[p].id)
           after == IF req[p].op = "r.update"
                    THEN ReviewsRepo_update(req[p].id, req[p].dto)
                    ELSE ReviewsRepo_delete(req[p].id)
           d == [NoDone EXCEPT !.op = req[p].op, !.user = req[p].user,
                               !.id = req[p].id, !.dto = req[p].dto,
                               !.hit = req[p].hit, !.res = req[p].res,
                               !.pre = row]
       IN
       IF req[p].res = {}
       THEN /\ Return(p, [d EXCEPT !.out = "TypeError", !.post = row])
            /\ UNCHANGED reviews
       ELSE IF ~ReviewGate(TheOne(req[p].res), req[p].user)
       THEN /\ Return(p, [d EXCEPT !.out = "Forbidden", !.post = row])
            /\ UNCHANGED reviews
       ELSE /\ reviews' = after
            /\ Return(p, [d EXCEPT !.out = "ok", !.wrote = TRUE,
                                   !.affected = Cardinality(row),
                                   !.post = {r \in after : r.id = req[p].id}])
    /\ UNCHANGED <<filled, qlog, products, nextPid, nextRid, cache, calls, pipeIn, pipeOut>>

(* -------------------- listing queries ---------------------------------- *)
Absent == 0 - 1
DefaultLimit == 10
DefaultPage == 0
DefaultMinPrice == 0
\* 99999999999999 in the source; any value above every price behaves alike,
\* and this one fits the model checker's integers.
DefaultMaxPrice == 999999999

\* The destructuring defaults of findAll / findByProduct.
Effective(q) ==
    [q EXCEPT !.limit = IF @ = Absent THEN DefaultLimit ELSE @,
              !.page = IF @ = Absent THEN DefaultPage ELSE @,
              !.minPrice = IF @ = Absent THEN DefaultMinPrice ELSE @,
              !.maxPrice = IF @ = Absent THEN DefaultMaxPrice ELSE @]

EffectiveReviews(q) ==
    [q EXCEPT !.limit = IF @ = Absent THEN DefaultLimit ELSE @,
              !.page = IF @ = Absent THEN DefaultPage ELSE @]

Range(s) == {s[i] : i \in 1..Len(s)}

RECURSIVE Perms(_)
Perms(S) ==
    IF S = {} THEN {<<>>}
    ELSE UNION {{<<x>> \o s : s \in Perms(S \ {x})} : x \in S}

Min(a, b) == IF a < b THEN a ELSE b

\* LIMIT n OFFSET k of an ordered result.
Slice(s, offset, limit) ==
    SubSeq(s, offset + 1, Min(Len(s), offset + limit))

\* String.prototype.toUpperCase on the tokens the pipe lets through.
toUpperCase(t) ==
    IF t = "asc" THEN "ASC" ELSE IF t = "desc" THEN "DESC" ELSE t

Col(r, orderBy) == IF orderBy = "id" THEN r.id ELSE r.price

\* ORDER BY on one key: consecutive rows respect the direction.
InOrder(s, K(_), dir) ==
    \A i \in 1..(Len(s) - 1) :
        IF dir = "ASC" THEN K(s[i]) <= K(s[i + 1])
                       ELSE K(s[i]) >= K(s[i + 1])

\* `if (categoryId)`: an absent id and the number 0 are both falsy.
Truthy(n) == n # Absent /\ n # 0

\* lines 66-69 and 83-85 of findAll: the WHERE clause.
ProductsWhereMutant(q) ==
    {r \in products :
        /\ q.minPrice <= r.price
        /\ Truthy(q.categoryId) => r.category = q.categoryId}

ProductsWhere(q) ==
    {r \in products :
        /\ q.minPrice <= r.price /\ r.price <= q.maxPrice
        /\ Truthy(q.categoryId) => r.category = q.categoryId}

\* CASE WHEN category.id IN (lastCategories) THEN 1 ELSE NULL END,
\* DESC NULLS LAST: 1 for the listed categories, 0 for the rest.
PinRankMutant(r, lastCategories) ==
    IF r.category \in Range(lastCategories) THEN 0 ELSE 1

PinRank(r, lastCategories) ==
    IF r.category \in Range(lastCategories) THEN 1 ELSE 0

\* lines 88-101 of findAll: the ORDER BY clause, as the orders it admits.
ProductsOrderMutant(s, q) ==
    IF Len(q.lastCategories) > 0
    THEN LET K(r) == PinRank(r, q.lastCategories) IN InOrder(s, K, "DESC")
    ELSE IF q.orderBy # ""
    THEN LET K(r) == Col(r, q.orderBy) IN
         InOrder(s, K, toUpperCase(q.orderByType))
    ELSE TRUE

ProductsOrder(s, q) ==
    IF q.orderBy # ""
    THEN LET K(r) == Col(r, q.orderBy) IN
         InOrder(s, K, toUpperCase(q.orderByType))
    ELSE IF Len(q.lastCategories) > 0
    THEN LET K(r) == PinRank(r, q.lastCategories) IN InOrder(s, K, "DESC")
    ELSE TRUE

\* lines 103-106 of findAll: the pages getMany can return now.  Rows the
\* ORDER BY does not separate come in any order.
ProductsGetManyMutant(q) ==
    {Slice(s, q.page, q.limit) :
        s \in {t \in Perms(ProductsWhere(q)) : ProductsOrder(t, q)}}

ProductsGetMany(q) ==
    {Slice(s, q.limit * q.page, q.limit) :
        s \in {t \in Perms(ProductsWhere(q)) : ProductsOrder(t, q)}}

\* lines 99-113 of findByProduct: reviews of the product, created_at DESC
\* first; the explicit column is a column of the joined product.
ReviewsWhere(q) ==
    {r \in reviews : r.product = q.productId /\ ProductRow(r.product) # {}}

ReviewsOrderMutant(s, q) ==
    LET K(r) == r.created IN InOrder(s, K, "ASC")

ReviewsOrder(s, q) ==
    LET K(r) == r.created IN InOrder(s, K, "DESC")

\* The value of the explicit sort column, product.<orderBy>, in each row of
\* a page as the query saw it.
JoinedKeys(page, q) ==
    IF q.orderBy = "" THEN <<>>
    ELSE [i \in 1..Len(page) |->
             Col(TheOne(ProductRow(page[i].product)), q.orderBy)]

ReviewsGetMany(q) ==
    {Slice(s, q.limit * q.page, q.limit) :
        s \in {t \in Perms(ReviewsWhere(q)) : ReviewsOrder(t, q)}}

(* -------------------- ProductsService.findAll -------------------------- *)
\* lines 47-56: the parameters handed to getProductsCacheKey, after the
\* destructuring defaults.
ProductsKeyParamsMutant(q) ==
    [NoQuery EXCEPT !.orderByType = q.orderByType, !.orderBy = q.orderBy,
                    !.limit = q.limit,
                    !.minPrice = q.minPrice, !.maxPrice = q.maxPrice,
                    !.categoryId = q.categoryId,
                    !.lastCategories = q.lastCategories]

ProductsKeyParams(q) ==
    [NoQuery EXCEPT !.orderByType = q.orderByType, !.orderBy = q.orderBy,
                    !.limit = q.limit, !.page = q.page,
                    !.minPrice = q.minPrice, !.maxPrice = q.maxPrice,
                    !.categoryId = q.categoryId,
                    !.lastCategories = q.lastCategories]

\* The cacheKey of findAll for a query q with the defaults applied.
FindAllKey(q) == getProductsCacheKey(ProductsKeyParams(q))

ProductsService_findAll_call(p, q) ==
    /\ CanCall(p)
    /\ Issue(p, [pc |-> "pl.get", op |-> "p.findAll", q |-> Effective(q),
                 raw |-> q, page |-> <<>>, ans |-> <<>>, pre |-> {}])
    /\ UNCHANGED <<filled, qlog, products, reviews, nextPid, nextRid, cache,
                   done, pipeIn, pipeOut>>

\* lines 60-62: what a hit returns.  The mutant reads the table instead.
FindAllCachedMutant(key) ==
    CHOOSE s \in ProductsGetMany(key.q) : TRUE

FindAllCached(key) == CacheGet(key)

\* lines 47-62: derive the key, cache.get, return the cached page on a hit.
ProductsService_findAll_get(p) ==
    /\ req[p].pc = "pl.get"
    /\ LET key == FindAllKey(req[p].q) IN
       IF CacheHit(key)
       THEN Return(p, [NoDone EXCEPT !.op = "p.findAll", !.q = req[p].q,
                                     !.raw = req[p].raw,
                                     !.out = "ok", !.hit = TRUE,
                                     !.src = qlog[key],
                                     !.page = FindAllCached(key)])
       ELSE /\ req' = [req EXCEPT ![p] = [@ EXCEPT !.pc = "pl.query"]]
            /\ UNCHANGED done
    /\ UNCHANGED <<filled, qlog, products, reviews, nextPid, nextRid, cache,
                   calls, pipeIn, pipeOut>>

\* lines 64-106: category check, ORDER BY (toUpperCase of an absent
\* orderByType is a TypeError), and the query itself.
ProductsService_findAll_query(p) ==
    /\ req[p].pc = "pl.query"
    /\ LET q == req[p].q
           d == [NoDone EXCEPT !.op = "p.findAll", !.q = q,
                               !.raw = req[p].raw]
       IN
       IF Truthy(q.categoryId) /\ CategoriesService_findById(q.categoryId) = {}
       THEN Return(p, [d EXCEPT !.out = "BadRequest"])
       ELSE IF q.orderBy # "" /\ q.orderByType = ""
       THEN Return(p, [d EXCEPT !.out = "TypeError"])
       ELSE /\ \E productsFromDb \in ProductsGetMany(q) :
                 req' = [req EXCEPT ![p] =
                           [@ EXCEPT !.pc = "pl.set",
                                     !.page = productsFromDb,
                                     !.ans = productsFromDb,
                                     !.pre = ProductsWhere(q)]]
            /\ UNCHANGED done
    /\ UNCHANGED <<filled, qlog, products, reviews, nextPid, nextRid, cache, calls,
                   pipeIn, pipeOut>>

\* lines 108-110: cache.set of the page, and return it.
ProductsService_findAll_set(p) ==
    /\ req[p].pc = "pl.set"
    /\ cache' = CacheSet(FindAllKey(req[p].q), req[p].page, FOUR_MINUTES)
    /\ filled' = [k \in DOMAIN filled \cup {FindAllKey(req[p].q)} |->
                     IF k = FindAllKey(req[p].q) THEN req[p].page
                     ELSE filled[k]]
    /\ qlog' = Logged(FindAllKey(req[p].q), "products", req[p].q,
                       req[p].raw, req[p].ans)
    /\ Return(p, [NoDone EXCEPT !.op = "p.findAll", !.q = req[p].q,
                                !.raw = req[p].raw,
                                !.out = "ok", !.page = req[p].page,
                                !.stored = req[p].page,
                                !.src = qlog'[FindAllKey(req[p].q)],
                                !.pre = req[p].pre])
    /\ UNCHANGED <<products, reviews, nextPid, nextRid, calls,
                   pipeIn, pipeOut>>

(* -------------------- ReviewsService.findByProduct --------------------- *)
\* lines 85-91: the parameters handed to getReviewsCacheKey, after the
\* destructuring defaults.
ReviewsKeyParamsMutant(q) ==
    [NoQuery EXCEPT !.orderByType = q.orderByType, !.orderBy = q.orderBy,
                    !.limit = q.limit, !.page = q.page]

ReviewsKeyParams(q) ==
    [NoQuery EXCEPT !.productId = q.productId,
                    !.orderByType = q.orderByType, !.orderBy = q.orderBy,
                    !.limit = q.limit, !.page = q.page]

\* The cacheKey of findByProduct for a query q with the defaults applied.
FindByProductKey(q) == getReviewsCacheKey(ReviewsKeyParams(q))

ReviewsService_findByProduct_call(p, q) ==
    /\ CanCall(p)
    /\ Issue(p, [pc |-> "rl.get", op |-> "r.findByProduct",
                 q |-> EffectiveReviews(q), raw |-> q, page |-> <<>>])
    /\ UNCHANGED <<filled, qlog, products, reviews, nextPid, nextRid, cache,
                   done, pipeIn, pipeOut>>

\* lines 85-97: derive the key, cache.get, return the cached page on a hit.
ReviewsService_findByProduct_get(p) ==
    /\ req[p].pc = "rl.get"
    /\ LET key == FindByProductKey(req[p].q) IN
       IF CacheHit(key)
       THEN Return(p, [NoDone EXCEPT !.op = "r.findByProduct", !.q = req[p].q,
                                     !.raw = req[p].raw,
                                     !.out = "ok", !.hit = TRUE,
                                     !.src = qlog[key],
                                     !.page = CacheGet(key)])
       ELSE /\ req' = [req EXCEPT ![p] = [@ EXCEPT !.pc = "rl.query"]]
            /\ UNCHANGED done
    /\ UNCHANGED <<filled, qlog, products, reviews, nextPid, nextRid, cache,
                   calls, pipeIn, pipeOut>>

\* lines 99-115: build the query (toUpperCase of an absent orderByType is a
\* TypeError); the first getMany() is what cache.set stores.
ReviewsService_findByProduct_query(p) ==
    /\ req[p].pc = "rl.query"
    /\ LET q == req[p].q IN
       IF q.orderBy # "" /\ q.orderByType = ""
       THEN /\ Return(p, [NoDone EXCEPT !.op = "r.findByProduct", !.q = q,
                                        !.raw = req[p].raw,
                                        !.out = "TypeError"])
            /\ UNCHANGED <<cache, qlog>>
       ELSE /\ \E stored \in ReviewsGetMany(q) :
                 /\ cache' = CacheSet(FindByProductKey(q), stored, ReviewsTtl)
                 /\ req' = [req EXCEPT ![p] = [@ EXCEPT !.pc = "rl.return",
                                                        !.page = stored]]
                 /\ qlog' = Logged(FindByProductKey(q), "reviews", q,
                                    req[p].raw, stored)
            /\ UNCHANGED done
    /\ UNCHANGED <<filled, products, reviews, nextPid, nextRid, calls,
                   pipeIn, pipeOut>>

\* line 117: the second getMany() is what the caller gets.
ReviewsService_findByProduct_return(p) ==
    /\ req[p].pc = "rl.return"
    /\ \E returned \in ReviewsGetMany(req[p].q) :
          Return(p, [NoDone EXCEPT !.op = "r.findByProduct",
                                   !.q = req[p].q, !.raw = req[p].raw,
                                   !.out = "ok", !.page = returned,
                                   !.stored = req[p].page,
                                   !.pre = ReviewsWhere(req[p].q),
                                   !.keys = JoinedKeys(returned, req[p].q)])
    /\ UNCHANGED <<filled, qlog, products, reviews, nextPid, nextRid, cache, calls,
                   pipeIn, pipeOut>>

ListingKind(op) == IF op = "p.findAll" THEN "products" ELSE "reviews"

(* -------------------- the cache's clock -------------------------------- *)
\* One unit of time passes: every entry loses one unit of ttl, and an
\* entry whose ttl has run out is gone.
TickMutant ==
    /\ DOMAIN cache # {}
    /\ cache' = [k \in DOMAIN cache |->
                    [cache[k] EXCEPT !.ttl = IF @ > 1 THEN @ - 1 ELSE @]]
    /\ UNCHANGED <<filled, qlog, products, reviews, nextPid, nextRid, req,
                   done, calls, pipeIn, pipeOut>>

Tick ==
    /\ DOMAIN cache # {}
    /\ cache' = [k \in {j \in DOMAIN cache : cache[j].ttl > 1} |->
                    [cache[k] EXCEPT !.ttl = @ - 1]]
    /\ filled' = [k \in {j \in DOMAIN filled : cache[j].ttl > 1} |-> filled[k]]
    /\ UNCHANGED <<qlog, products, reviews, nextPid, nextRid, req, done, calls,
                   pipeIn, pipeOut>>

(* -------------------- OrderByTypePipe ---------------------------------- *)
\* A token is the sequence of its characters.
Chars == {"a", "s", "c", "d", "e", "A", "S", "D", "x"}
Tokens == UNION {[1..n -> Chars] : n \in 0..MaxTokenLen}

NoPipeOut == [kind |-> "none", value |-> <<>>]

\* line 12: ['asc', 'desc'].includes(value).
OrderByTypePipe_accepts(value) ==
    value \in {<<"d", "e", "s", "c">>, <<"a", "s", "c">>}

\* lines 9-19: falsy values pass; anything not accepted throws.
OrderByTypePipe_transform ==
    /\ pipeOut.kind = "none"
    /\ pipeOut' =
         IF pipeIn = <<>> THEN [kind |-> "return", value |-> pipeIn]
         ELSE IF ~OrderByTypePipe_accepts(pipeIn)
         THEN [kind |-> "BadRequest", value |-> <<>>]
         ELSE [kind |-> "return", value |-> pipeIn]
    /\ UNCHANGED <<filled, qlog, products, reviews, nextPid, nextRid, cache, req, done,
                   calls, pipeIn>>

(* -------------------- inputs ------------------------------------------- *)
BaseQuery == [NoQuery EXCEPT !.limit = Absent, !.page = Absent,
                             !.minPrice = Absent, !.maxPrice = Absent,
                             !.categoryId = Absent]

ProductQueries ==
    { BaseQuery,
      [BaseQuery EXCEPT !.orderBy = "price", !.orderByType = "desc"],
      [BaseQuery EXCEPT !.orderBy = "price"],
      [BaseQuery EXCEPT !.minPrice = 2],
      [BaseQuery EXCEPT !.maxPrice = 1] }

BaseReviewQuery == [NoQuery EXCEPT !.limit = Absent, !.page = Absent,
                                   !.productId = 1]

ReviewQueries ==
    { BaseReviewQuery,
      [BaseReviewQuery EXCEPT !.orderBy = "price", !.orderByType = "asc"],
      [BaseReviewQuery EXCEPT !.orderBy = "price"] }

CreateProductDtos == [price : {1}, categoryId : CategoryIds]
CreateReviewDtos == [productId : {1}, user : {1, 2}, rating : {1}]

(* -------------------- specification ------------------------------------ *)
\* The store holds two products of two companies and two reviews of the
\* first product, as create calls leave them; the cache is empty.
Init ==
    /\ products = {[id |-> 1, price |-> 1, category |-> 1, company |-> 10],
                   [id |-> 2, price |-> 2, category |-> 2, company |-> 20]}
    /\ reviews = {[id |-> 1, product |-> 1, user |-> 1, rating |-> 1,
                   created |-> 1],
                  [id |-> 2, product |-> 1, user |-> 2, rating |-> 2,
                   created |-> 1]}
    /\ nextPid = 3
    /\ nextRid = 3
    /\ cache = <<>>
    /\ filled = <<>>
    /\ qlog = <<>>
    /\ req = [p \in Procs |-> Idle]
    /\ done = NoDone
    /\ calls = 0
    /\ pipeIn = <<>>
    /\ pipeOut = NoPipeOut

ProductsLookupSteps ==
    \/ \E p \in Procs : ProductsService_findById_get(p)
    \/ \E p \in Procs : ProductsService_findById_findOne(p)
    \/ \E p \in Procs : ProductsService_update_write(p)
    \/ \E p \in Procs : ProductsService_delete_write(p)

\* ProductsService: the single-row operations.
NextProducts ==
    \/ /\ calls < MaxCalls
       /\ \/ \E p \in Procs, id \in ProductIds :
                ProductsService_findById_call(p, id)
          \/ \E p \in Procs, u \in Users, id \in ProductIds :
                ProductsService_update_call(p, u, id, 2)
          \/ \E p \in Procs, u \in Users, id \in ProductIds :
                ProductsService_delete_call(p, u, id)
          \/ \E p \in Procs, u \in Users, dto \in CreateProductDtos :
                ProductsService_create(p, u, dto)
          \/ \E p \in Procs, u \in Users, categoryId \in {1, 3} :
                ProductsService_create2(p, u, [price |-> 1,
                                               categoryId |-> categoryId])
    \/ ProductsLookupSteps
    \/ Tick

SpecProducts == Init /\ [][NextProducts]_vars

\* ReviewsService: the single-row operations and the listing.
NextReviews ==
    \/ /\ calls < MaxCalls
       /\ \/ \E p \in Procs, dto \in CreateReviewDtos, tick \in {0, 1} :
                ReviewsService_create(p, dto, tick)
          \/ \E p \in Procs, id \in ReviewIds :
                ReviewsService_findById_call(p, id)
          \/ \E p \in Procs, u \in Users, id \in ReviewIds :
                ReviewsService_update_call(p, u, id, 2)
          \/ \E p \in Procs, u \in Users, id \in ReviewIds :
                ReviewsService_delete_call(p, u, id)
          \/ \E p \in Procs, q \in ReviewQueries :
                ReviewsService_findByProduct_call(p, q)
    \/ \E p \in Procs : ReviewsService_findById_get(p)
    \/ \E p \in Procs : ReviewsService_findById_findOne(p)
    \/ \E p \in Procs : ReviewsService_write(p)
    \/ \E p \in Procs : ReviewsService_findByProduct_get(p)
    \/ \E p \in Procs : ReviewsService_findByProduct_query(p)
    \/ \E p \in Procs : ReviewsService_findByProduct_return(p)
    \/ Tick

SpecReviews == Init /\ [][NextReviews]_vars

\* ProductsService: the listing, with writes that change what it reads:
\* the owner of product 1 reprices it, user 2 deletes product 2 or creates
\* a product in category 2.
NextListing ==
    \/ /\ calls < MaxListingCalls
       /\ \/ \E p \in Procs, q \in ProductQueries :
                ProductsService_findAll_call(p, q)
          \/ \E p \in Procs : ProductsService_update_call(p, 1, 1, 2)
          \/ \E p \in Procs : ProductsService_delete_call(p, 2, 2)
          \/ \E p \in Procs :
                ProductsService_create(p, 2, [price |-> 1, categoryId |-> 2])
    \/ \E p \in Procs : ProductsService_findAll_get(p)
    \/ \E p \in Procs : ProductsService_findAll_query(p)
    \/ \E p \in Procs : ProductsService_findAll_set(p)
    \/ ProductsLookupSteps
    \/ Tick

SpecListing == Init /\ [][NextListing]_vars

\* Both listings with explicit sort columns, with writes that change the
\* sort keys and add rows.
OrderQueries ==
    { [BaseQuery EXCEPT !.orderBy = "price", !.orderByType = "desc"],
      [BaseQuery EXCEPT !.orderBy = "price", !.orderByType = "asc",
                        !.lastCategories = <<2>>],
      [BaseQuery EXCEPT !.orderBy = "id", !.orderByType = "desc",
                        !.limit = 1] }

ReviewOrderQueries ==
    { [BaseReviewQuery EXCEPT !.orderBy = "price", !.orderByType = "asc"] }

NextOrder ==
    \/ /\ calls < MaxListingCalls
       /\ \/ \E p \in Procs, q \in OrderQueries :
                ProductsService_findAll_call(p, q)
          \/ \E p \in Procs, q \in ReviewOrderQueries :
                ReviewsService_findByProduct_call(p, q)
          \/ \E p \in Procs : ProductsService_update_call(p, 1, 1, 2)
          \/ \E p \in Procs :
                ReviewsService_create(p, [productId |-> 1, user |-> 1,
                                          rating |-> 1], 1)
    \/ \E p \in Procs : ProductsService_findAll_get(p)
    \/ \E p \in Procs : ProductsService_findAll_query(p)
    \/ \E p \in Procs : ProductsService_findAll_set(p)
    \/ \E p \in Procs : ReviewsService_findByProduct_get(p)
    \/ \E p \in Procs : ReviewsService_findByProduct_query(p)
    \/ \E p \in Procs : ReviewsService_findByProduct_return(p)
    \/ \E p \in Procs : ProductsService_findById_get(p)
    \/ \E p \in Procs : ProductsService_findById_findOne(p)
    \/ \E p \in Procs : ProductsService_update_write(p)
    \/ Tick

SpecOrder == Init /\ [][NextOrder]_vars

\* The pipe on its own: any token comes in, transform runs once.
InitPipe ==
    /\ products = {}
    /\ reviews = {}
    /\ nextPid = 1
    /\ nextRid = 1
    /\ cache = <<>>
    /\ filled = <<>>
    /\ qlog = <<>>
    /\ req = [p \in Procs |-> Idle]
    /\ done = NoDone
    /\ calls = 0
    /\ pipeIn \in Tokens
    /\ pipeOut = NoPipeOut

NextPipe == OrderByTypePipe_transform

SpecPipe == InitPipe /\ [][NextPipe]_vars

(* ======================= properties ==================================== *)
Owner(product) == CompanyUser[product.company]

\* C1: ProductsService.delete removes the product row only when the acting
\* user is the user of the company that owns the product; for every other
\* user the call fails with Unauthorized and the row is still there.
C1_DeleteOnlyByOwner ==
    (done.op = "p.delete" /\ done.res # {}
        /\ done.user # Owner(TheOne(done.res)))
    => (done.out = "Unauthorized" /\ ~done.wrote /\ done.post = done.pre)

\* C2: ReviewsService.update and delete by a user who is not the review's
\* author fail with Forbidden and leave the review row as it was.
C2_ReviewNonAuthorForbidden ==
    (done.op \in {"r.update", "r.delete"} /\ done.res # {}
        /\ TheOne(done.res).user # done.user)
    => (done.out = "Forbidden" /\ ~done.wrote /\ done.post = done.pre)

C2_Witness ==
    /\ done.op \in {"r.update", "r.delete"}
    /\ done.out = "Forbidden"
    /\ done.pre # {}
    /\ TheOne(done.pre).user # done.user
    /\ ReviewRow(done.id) = done.pre

\* C3: ProductsService.update by a user who is not the user of the
\* product's owning company fails with Unauthorized and leaves the product
\* row as it was, also when the product came from a cached findById entry
\* that is older than the row; the cached company is the row's company.
C3_UpdateNonOwnerUnauthorized ==
    (done.op = "p.update" /\ done.res # {})
    => /\ \A row \in done.pre : row.company = TheOne(done.res).company
       /\ done.user # Owner(TheOne(done.res))
            => (done.out = "Unauthorized" /\ ~done.wrote
                /\ done.post = done.pre)

C3_Witness ==
    /\ done.op = "p.update"
    /\ done.out = "Unauthorized"
    /\ done.hit
    /\ done.pre # {}
    /\ done.res # done.pre
    /\ ProductRow(done.id) = done.pre

\* C4: ProductsService.create with a categoryId that names no category
\* fails with BadRequest and inserts no row, in both definitions of create.
C4_CreateChecksCategory ==
    (done.op \in {"p.create", "p.create2"}
        /\ done.dto.categoryId \notin Categories)
    => (done.out = "BadRequest" /\ ~done.wrote)

C6_ZeroRowsSignalled ==
    (done.wrote /\ done.affected = 0) => done.out = "InternalServerError"

\* C7: every outcome of a service operation is success or one of the four
\* categorized errors.
C7_FailuresCategorized ==
    done.out \in {"none", "ok", "BadRequest", "Forbidden", "Unauthorized",
                  "InternalServerError"}

\* String.prototype.toLowerCase, character by character.
toLowerCase(t) ==
    [i \in 1..Len(t) |->
        IF t[i] = "A" THEN "a" ELSE IF t[i] = "S" THEN "s"
        ELSE IF t[i] = "D" THEN "d" ELSE t[i]]

\* C8: OrderByTypePipe.transform returns every non-empty token that reads
\* asc or desc in any letter case, throws BadRequest for every other
\* non-empty token, and passes an empty token through.
C8_PipeCaseInsensitive ==
    pipeOut.kind # "none" =>
        IF pipeIn = <<>> \/
           toLowerCase(pipeIn) \in {<<"a", "s", "c">>, <<"d", "e", "s", "c">>}
        THEN pipeOut = [kind |-> "return", value |-> pipeIn]
        ELSE pipeOut.kind = "BadRequest"

\* C9: with minPrice <= maxPrice after defaults, every product of the page
\* findAll returns has its price within [minPrice, maxPrice], from the
\* database and from the cache.
C9_PricesInRange ==
    (done.op = "p.findAll" /\ done.out = "ok"
        /\ done.q.minPrice <= done.q.maxPrice)
    => \A i \in 1..Len(done.page) :
          /\ done.q.minPrice <= done.page[i].price
          /\ done.page[i].price <= done.q.maxPrice

C9_Witness ==
    /\ done.op = "p.findAll"
    /\ done.out = "ok"
    /\ done.hit
    /\ done.q.maxPrice = 1
    /\ \E i \in 1..Len(done.page) : \E r \in products :
          r.id = done.page[i].id /\ r.price > done.q.maxPrice

\* C10: a listing called with an explicit orderBy column and orderByType
\* direction returns a page sorted by that column in that direction.  For
\* products the column is the only sort key.  For reviews the column is a
\* column of the joined product, which is the one requested product in
\* every row of the page.
C10_ExplicitOrderSorted ==
    (done.out = "ok" /\ done.q.orderBy # "" /\ done.q.orderByType # "")
    => /\ done.op = "p.findAll" =>
            LET K(r) == Col(r, done.q.orderBy) IN
            InOrder(done.page, K, toUpperCase(done.q.orderByType))
       /\ done.op = "r.findByProduct" =>
            /\ \A i \in 1..Len(done.page) :
                  done.page[i].product = done.q.productId
            /\ ~done.hit =>
                  LET K(k) == k IN
                  /\ Len(done.keys) = Len(done.page)
                  /\ InOrder(done.keys, K, toUpperCase(done.q.orderByType))

\* An explicit column with lastCategories given: the row of a category that
\* is not listed comes before the row of a listed one.
C10_Witness ==
    /\ done.op = "p.findAll"
    /\ done.out = "ok"
    /\ done.q.orderBy = "price"
    /\ done.q.orderByType = "asc"
    /\ Len(done.q.lastCategories) > 0
    /\ Len(done.page) >= 2
    /\ done.page[1].price < done.page[2].price
    /\ PinRank(done.page[1], done.q.lastCategories)
         < PinRank(done.page[2], done.q.lastCategories)

(* ======================= the catalogue listing ========================= *)
\* ProductsService.findAll with category filters, pinned categories and
\* pages, with writes that add rows with and without a category and remove
\* a row.
CatalogQueries ==
    { [BaseQuery EXCEPT !.lastCategories = <<2>>],
      [BaseQuery EXCEPT !.lastCategories = <<2>>, !.limit = 2, !.page = 1],
      [BaseQuery EXCEPT !.categoryId = 3],
      [BaseQuery EXCEPT !.categoryId = 2],
      [BaseQuery EXCEPT !.categoryId = 0],
      [BaseQuery EXCEPT !.orderBy = "id", !.orderByType = "desc",
                        !.limit = 1, !.page = 1],
      [BaseQuery EXCEPT !.limit = 2, !.page = 0] }

NextCatalog ==
    \/ /\ calls < MaxCalls
       /\ \/ \E p \in Procs, q \in CatalogQueries :
                ProductsService_findAll_call(p, q)
          \/ \E p \in Procs :
                ProductsService_create2(p, 1, [price |-> 1, categoryId |-> 1])
          \/ \E p \in Procs :
                ProductsService_create(p, 2, [price |-> 1, categoryId |-> 2])
          \/ \E p \in Procs : ProductsService_delete_call(p, 2, 2)
    \/ \E p \in Procs : ProductsService_findAll_get(p)
    \/ \E p \in Procs : ProductsService_findAll_query(p)
    \/ \E p \in Procs : ProductsService_findAll_set(p)
    \/ \E p \in Procs : ProductsService_findById_get(p)
    \/ \E p \in Procs : ProductsService_findById_findOne(p)
    \/ \E p \in Procs : ProductsService_delete_write(p)
    \/ Tick

SpecCatalog == Init /\ [][NextCatalog]_vars

\* C11: findAll called without orderBy and with a non-empty lastCategories
\* returns a page in which every product of a listed category comes before
\* every product of a category that is not listed; a product without a
\* category counts as not listed.
C11_PinnedFirst ==
    (done.op = "p.findAll" /\ done.out = "ok" /\ done.q.orderBy = ""
        /\ Len(done.q.lastCategories) > 0)
    => \A i \in 1..Len(done.page) : \A j \in 1..Len(done.page) :
          (i < j /\ done.page[j].category \in Range(done.q.lastCategories))
          => done.page[i].category \in Range(done.q.lastCategories)

\* A listed row with the higher id ahead of an unlisted row and of a row
\* without a category.
C11_Witness ==
    /\ done.op = "p.findAll"
    /\ done.out = "ok"
    /\ done.q.orderBy = ""
    /\ done.q.lastCategories = <<2>>
    /\ Len(done.page) >= 3
    /\ done.page[1].category = 2
    /\ \E i \in 2..Len(done.page) : done.page[i].category = NoCategory
    /\ \E i \in 2..Len(done.page) : done.page[i].id < done.page[1].id

\* C12: on a miss, findAll with a supplied categoryId that names no
\* category fails with BadRequest and returns no page, and no cache entry
\* exists under a key with such a categoryId; with a categoryId that names
\* a category every product of the page belongs to it.  For every supplied
\* categoryId value.
C12_CategoryValidated ==
    /\ (done.op = "p.findAll" /\ ~done.hit /\ done.raw.categoryId # Absent)
       => IF done.raw.categoryId \in Categories
          THEN done.out = "ok" =>
                  \A i \in 1..Len(done.page) :
                     done.page[i].category = done.raw.categoryId
          ELSE done.out = "BadRequest" /\ done.page = <<>>
    /\ \A k \in DOMAIN cache :
          (k.kind = "products" /\ k.q.categoryId # Absent)
          => k.q.categoryId \in Categories

\* The order key of findAll for a query: the explicit column (negated for
\* DESC), else the pin rank (negated: DESC), else nothing.
OrderKey(r, q) ==
    IF q.orderBy # ""
    THEN IF toUpperCase(q.orderByType) = "ASC" THEN Col(r, q.orderBy)
         ELSE 0 - Col(r, q.orderBy)
    ELSE IF Len(q.lastCategories) > 0 THEN 0 - PinRank(r, q.lastCategories)
    ELSE 0

Max(a, b) == IF a > b THEN a ELSE b

\* C19: on a miss findAll returns the rows at positions
\* [page * limit, page * limit + limit) of the filtered, ordered result:
\* the page holds min(limit, rows left after the offset) distinct rows of
\* the filtered set, in order, and the i-th row of the page can stand at
\* position page * limit + i of the ordered result.
C19_PageIsSlice ==
    (done.op = "p.findAll" /\ done.out = "ok" /\ ~done.hit)
    => LET q == done.q
           offset == q.limit * q.page
           before(r) == Cardinality({x \in done.pre :
                                        OrderKey(x, q) < OrderKey(r, q)})
           upto(r) == Cardinality({x \in done.pre :
                                        OrderKey(x, q) <= OrderKey(r, q)})
       IN
       /\ Len(done.page) <= q.limit
       /\ Len(done.page) =
             Min(q.limit, Max(0, Cardinality(done.pre) - offset))
       /\ \A i \in 1..Len(done.page) :
             /\ done.page[i] \in done.pre
             /\ before(done.page[i]) <= offset + i - 1
             /\ upto(done.page[i]) >= offset + i
             /\ \A j \in 1..Len(done.page) :
                   i # j => done.page[i] # done.page[j]

\* The second page of two rows per page over three rows: one row, the last.
C19_Witness ==
    /\ done.op = "p.findAll"
    /\ done.out = "ok"
    /\ ~done.hit
    /\ done.q.limit = 2
    /\ done.q.page = 1
    /\ Cardinality(done.pre) = 3
    /\ Len(done.page) = 1
    /\ done.page[1].category # 2

\* C20: create (lines 143-171) by a user who owns no company fails with
\* BadRequest whatever the category and inserts no row; a create that
\* succeeds inserts one row attached to the company of the acting user and
\* to the requested category.
C20_CreateOwnCompany ==
    done.op = "p.create"
    => /\ CompaniesService_findByUserId(done.user) = {}
          => (done.out = "BadRequest" /\ ~done.wrote /\ done.post = {}
              /\ ProductRow(done.id) = {})
       /\ done.out = "ok"
          => /\ done.wrote
             /\ Cardinality(done.post) = 1
             /\ \A row \in done.post :
                   /\ row.id = done.id
                   /\ row.company \in Companies
                   /\ CompanyUser[row.company] = done.user
                   /\ row.category = done.dto.categoryId
                   /\ row.category \in Categories

C20_Witness ==
    /\ done.op = "p.create"
    /\ done.out = "ok"
    /\ done.user = 2
    /\ \E row \in done.post :
          row.company = 20 /\ row.category = done.dto.categoryId

(* ======================= cache keys and cached pages =================== *)
\* Both listings, called with parameters written out or left to their
\* defaults, with creates that change what the queries return.
KeyProductQueries ==
    { BaseQuery,
      [BaseQuery EXCEPT !.limit = 10, !.page = 0, !.minPrice = 0],
      [BaseQuery EXCEPT !.page = 1] }

KeyReviewQueries ==
    { BaseReviewQuery,
      [BaseReviewQuery EXCEPT !.limit = 10, !.page = 0],
      [BaseReviewQuery EXCEPT !.productId = 2] }

NextKeys ==
    \/ /\ calls < MaxCalls
       /\ \/ \E p \in Procs, q \in KeyProductQueries :
                ProductsService_findAll_call(p, q)
          \/ \E p \in Procs, q \in KeyReviewQueries :
                ReviewsService_findByProduct_call(p, q)
          \/ \E p \in Procs :
                ProductsService_create(p, 2, [price |-> 1, categoryId |-> 2])
          \/ \E p \in Procs :
                ReviewsService_create(p, [productId |-> 1, user |-> 1,
                                          rating |-> 1], 1)
    \/ \E p \in Procs : ProductsService_findAll_get(p)
    \/ \E p \in Procs : ProductsService_findAll_query(p)
    \/ \E p \in Procs : ProductsService_findAll_set(p)
    \/ \E p \in Procs : ReviewsService_findByProduct_get(p)
    \/ \E p \in Procs : ReviewsService_findByProduct_query(p)
    \/ \E p \in Procs : ReviewsService_findByProduct_return(p)
    \/ Tick

SpecKeys == Init /\ [][NextKeys]_vars

\* C13: listing requests with the same parameters after the defaults use
\* the same cache key, requests that differ in a parameter after the
\* defaults use different keys (a product listing and a review listing
\* also), and the page a hit returns is the answer to a query made with the
\* parameters of the request it is returned to.
C13_KeyPerParameters ==
    /\ \A q1 \in KeyProductQueries : \A q2 \in KeyProductQueries :
          (Effective(q1) = Effective(q2))
          <=> (FindAllKey(Effective(q1)) = FindAllKey(Effective(q2)))
    /\ \A q1 \in KeyReviewQueries : \A q2 \in KeyReviewQueries :
          (EffectiveReviews(q1) = EffectiveReviews(q2))
          <=> (FindByProductKey(EffectiveReviews(q1))
                 = FindByProductKey(EffectiveReviews(q2)))
    /\ \A q1 \in KeyProductQueries : \A q2 \in KeyReviewQueries :
          FindAllKey(Effective(q1)) # FindByProductKey(EffectiveReviews(q2))
    /\ (done.op \in {"p.findAll", "r.findByProduct"} /\ done.hit)
       => /\ done.src.kind = ListingKind(done.op)
          /\ done.src.q = done.q
          /\ done.src.page = done.page

\* A hit for a request written differently from the request that stored
\* the entry: the two have the same parameters after the defaults.
C13_Witness ==
    /\ done.op \in {"p.findAll", "r.findByProduct"}
    /\ done.hit
    /\ done.src.q = done.q
    /\ done.src.raw # done.raw

(* ======================= racing listings =============================== *)
\* Both listings, each with one parameter set, racing with each other and
\* with creates.
NextRace ==
    \/ /\ calls < MaxListingCalls
       /\ \/ \E p \in Procs : ProductsService_findAll_call(p, BaseQuery)
          \/ \E p \in Procs :
                ReviewsService_findByProduct_call(p, BaseReviewQuery)
          \/ \E p \in Procs :
                ProductsService_create(p, 2, [price |-> 1, categoryId |-> 2])
          \/ \E p \in Procs :
                ReviewsService_create(p, [productId |-> 1, user |-> 1,
                                          rating |-> 1], 1)
    \/ \E p \in Procs : ProductsService_findAll_get(p)
    \/ \E p \in Procs : ProductsService_findAll_query(p)
    \/ \E p \in Procs : ProductsService_findAll_set(p)
    \/ \E p \in Procs : ReviewsService_findByProduct_get(p)
    \/ \E p \in Procs : ReviewsService_findByProduct_query(p)
    \/ \E p \in Procs : ReviewsService_findByProduct_return(p)
    \/ Tick

SpecRace == Init /\ [][NextRace]_vars

\* C17: every cache entry under a listing key holds the page that one
\* database query with the parameters of that key returned, whatever the
\* order in which concurrent requests and creates ran.
C17_EntryIsOneQueryResult ==
    \A k \in DOMAIN cache :
       k.kind \in {"products", "reviews"}
       => /\ k \in DOMAIN qlog
          /\ qlog[k].kind = k.kind
          /\ qlog[k].q = k.q
          /\ qlog[k].page = cache[k].val

\* No request in flight, and an entry holds a page the table no longer
\* gives, stored over a live entry that held another page: the request that
\* read the table first stored last.
C17_Witness ==
    /\ \A p \in Procs : req[p].pc = "idle"
    /\ \E k \in DOMAIN cache :
          /\ k.kind = "products"
          /\ k \in DOMAIN qlog
          /\ qlog[k].over
          /\ cache[k].val \notin ProductsGetMany(k.q)

(* ======================= pages of reviews ============================== *)
\* ReviewsService.findByProduct with pages and an explicit column, with
\* creates at the time of the latest review and after it, and deletes.
PageReviewQueries ==
    { BaseReviewQuery,
      [BaseReviewQuery EXCEPT !.productId = 2],
      [BaseReviewQuery EXCEPT !.orderBy = "price", !.orderByType = "asc",
                              !.limit = 1, !.page = 1],
      [BaseReviewQuery EXCEPT !.limit = 2, !.page = 0] }

NextReviewPages ==
    \/ /\ calls < MaxCalls
       /\ \/ \E p \in Procs, q \in PageReviewQueries :
                ReviewsService_findByProduct_call(p, q)
          \/ \E p \in Procs, tick \in {0, 1} :
                ReviewsService_create(p, [productId |-> 1, user |-> 1,
                                          rating |-> 1], tick)
          \/ \E p \in Procs :
                ReviewsService_create(p, [productId |-> 2, user |-> 2,
                                          rating |-> 1], 1)
          \/ \E p \in Procs : ReviewsService_delete_call(p, 1, 1)
    \/ \E p \in Procs : ReviewsService_findByProduct_get(p)
    \/ \E p \in Procs : ReviewsService_findByProduct_query(p)
    \/ \E p \in Procs : ReviewsService_findByProduct_return(p)
    \/ \E p \in Procs : ReviewsService_findById_get(p)
    \/ \E p \in Procs : ReviewsService_findById_findOne(p)
    \/ \E p \in Procs : ReviewsService_write(p)
    \/ Tick

SpecReviewPages == Init /\ [][NextReviewPages]_vars

\* C18: findByProduct returns reviews of the requested product only, in
\* descending order of creation time whatever the explicit column, at most
\* limit of them; on a miss the page holds the rows at positions
\* [limit * page, limit * page + limit) of that order.
C18_ReviewsPage ==
    (done.op = "r.findByProduct" /\ done.out = "ok")
    => LET q == done.q
           offset == q.limit * q.page
           K(r) == r.created
           newer(r) == Cardinality({x \in done.pre : x.created > r.created})
           notOlder(r) == Cardinality({x \in done.pre :
                                          x.created >= r.created})
       IN
       /\ \A i \in 1..Len(done.page) : done.page[i].product = q.productId
       /\ InOrder(done.page, K, "DESC")
       /\ Len(done.page) <= q.limit
       /\ ~done.hit =>
             /\ Len(done.page) =
                   Min(q.limit, Max(0, Cardinality(done.pre) - offset))
             /\ \A i \in 1..Len(done.page) :
                   /\ done.page[i] \in done.pre
                   /\ newer(done.page[i]) <= offset + i - 1
                   /\ notOlder(done.page[i]) >= offset + i
                   /\ \A j \in 1..Len(done.page) :
                         i # j => done.page[i] # done.page[j]

\* The second page of one row per page, with an explicit column: a newer
\* review stands before it and a review of the same creation time exists.
C18_Witness ==
    /\ done.op = "r.findByProduct"
    /\ done.out = "ok"
    /\ ~done.hit
    /\ done.q.orderBy = "price"
    /\ done.q.limit = 1
    /\ done.q.page = 1
    /\ Len(done.page) = 1
    /\ \E x \in done.pre : x.created > done.page[1].created
    /\ \E y \in done.pre :
          y # done.page[1] /\ y.created = done.page[1].created

\* C14: on a miss findByProduct returns the page it stored in the cache:
\* the page handed to the caller is the page of the cache.set.
C14_ReturnedIsStored ==
    (done.op = "r.findByProduct" /\ done.out = "ok" /\ ~done.hit)
    => done.page = done.stored

(* ======================= writes and the cache ========================== *)
\* The single-row operations of both services, each on one row, next to a
\* findById and the two listings that fill the cache.
NextFrame ==
    \/ /\ calls < MaxCalls
       /\ \/ \E p \in Procs : ProductsService_findById_call(p, 1)
          \/ \E p \in Procs : ProductsService_findAll_call(p, BaseQuery)
          \/ \E p \in Procs : ProductsService_update_call(p, 1, 1, 2)
          \/ \E p \in Procs : ProductsService_delete_call(p, 1, 1)
          \/ \E p \in Procs :
                ProductsService_create(p, 2, [price |-> 1, categoryId |-> 2])
          \/ \E p \in Procs :
                ReviewsService_findByProduct_call(p, BaseReviewQuery)
          \/ \E p \in Procs :
                ReviewsService_create(p, [productId |-> 1, user |-> 1,
                                          rating |-> 1], 1)
          \/ \E p \in Procs : ReviewsService_update_call(p, 1, 1, 2)
          \/ \E p \in Procs : ReviewsService_delete_call(p, 1, 1)
    \/ ProductsLookupSteps
    \/ \E p \in Procs : ProductsService_findAll_get(p)
    \/ \E p \in Procs : ProductsService_findAll_query(p)
    \/ \E p \in Procs : ProductsService_findAll_set(p)
    \/ \E p \in Procs : ReviewsService_findById_get(p)
    \/ \E p \in Procs : ReviewsService_findById_findOne(p)
    \/ \E p \in Procs : ReviewsService_write(p)
    \/ \E p \in Procs : ReviewsService_findByProduct_get(p)
    \/ \E p \in Procs : ReviewsService_findByProduct_query(p)
    \/ \E p \in Procs : ReviewsService_findByProduct_return(p)
    \/ Tick

SpecFrame == Init /\ [][NextFrame]_vars

MutationOps == {"p.update", "p.delete", "r.update", "r.delete"}

\* The step belongs to a create, update or delete call: the call is issued,
\* one of its awaits completes, or (create) it runs as a whole.
MutationStep ==
    \/ \E p \in Procs :
          /\ req'[p] # req[p]
          /\ IF req[p].pc = "idle" THEN req'[p].op \in MutationOps
                                   ELSE req[p].op \in MutationOps
    \/ /\ req' = req
       /\ calls' = calls + 1

\* C15 as stated: no step of a create, update or delete of either service
\* changes the cache.
C15_MutationsLeaveCache ==
    [][MutationStep => cache' = cache]_vars

\* C15 as amended: a step of a create, update or delete removes no cache
\* entry, and the only entry it writes is the one findById stores inside
\* ProductsService.update and delete on a miss: under the by-id key of the
\* product looked up, holding the row as it is before the write.
C15_MutationsOnlyFillById ==
    [][MutationStep =>
        /\ \A k \in DOMAIN cache : k \in DOMAIN cache'
        /\ \A k \in DOMAIN cache' :
              (k \notin DOMAIN cache \/ cache'[k] # cache[k])
              => \E p \in Procs :
                    /\ req[p].pc = "p.findOne"
                    /\ req[p].op \in {"p.update", "p.delete"}
                    /\ k = getProductCacheKey(req[p].id)
                    /\ {cache'[k].val} = ProductRow(req[p].id)
                    /\ cache'[k].ttl = FOUR_MINUTES]_vars

\* A findById served from the cache after an update of the same product
\* went through: the product returned has the price from before the write.
C15_Witness ==
    /\ done.op = "p.findById"
    /\ done.hit
    /\ ProductRow(done.id) # {}
    /\ done.res # ProductRow(done.id)
    /\ TheOne(done.res).price # TheOne(ProductRow(done.id)).price

(* ======================= expiry ======================================== *)
\* A findById and the two listings around an update and a create, while
\* time passes.  Time does pass: the clock of the cache is not held up by
\* the requests.
NextTtl ==
    \/ /\ calls < MaxListingCalls
       /\ \/ \E p \in Procs : ProductsService_findById_call(p, 1)
          \/ \E p \in Procs : ProductsService_findAll_call(p, BaseQuery)
          \/ \E p \in Procs :
                ReviewsService_findByProduct_call(p, BaseReviewQuery)
          \/ \E p \in Procs : ProductsService_update_call(p, 1, 1, 2)
          \/ \E p \in Procs :
                ReviewsService_create(p, [productId |-> 1, user |-> 1,
                                          rating |-> 1], 1)
    \/ \E p \in Procs : ProductsService_findById_get(p)
    \/ \E p \in Procs : ProductsService_findById_findOne(p)
    \/ \E p \in Procs : ProductsService_update_write(p)
    \/ \E p \in Procs : ProductsService_findAll_get(p)
    \/ \E p \in Procs : ProductsService_findAll_query(p)
    \/ \E p \in Procs : ProductsService_findAll_set(p)
    \/ \E p \in Procs : ReviewsService_findByProduct_get(p)
    \/ \E p \in Procs : ReviewsService_findByProduct_query(p)
    \/ \E p \in Procs : ReviewsService_findByProduct_return(p)
    \/ Tick

SpecTtl == Init /\ [][NextTtl]_vars /\ WF_vars(Tick)

\* The entry under key k holds what the database gives now.
Current(k) ==
    IF k.kind = "products" THEN cache[k].val \in ProductsGetMany(k.q)
    ELSE IF k.kind = "reviews" THEN cache[k].val \in ReviewsGetMany(k.q)
    ELSE IF k.kind = "product" THEN {cache[k].val} = ProductRow(k.id)
    ELSE {cache[k].val} = ReviewRow(k.id)

\* A findById or listing call that missed and succeeds in this step.
MissReturns ==
    /\ done' # done
    /\ done'.op \in {"p.findById", "p.findAll", "r.findByProduct"}
    /\ done'.out = "ok"
    /\ ~done'.hit

\* C16: an entry is stored with the fixed ttl and is gone once the ttl has
\* run out; a findById or listing that misses returns what the database
\* gave it, and the entry stored for it holds what the database gave; once
\* the writes have stopped, from some time on every entry in the cache
\* holds what the database gives now, so every findById and listing returns
\* the current database state.
C16_ExpiryRefreshes ==
    /\ [][/\ \A k \in DOMAIN cache' :
                /\ cache'[k].ttl \in 1..TtlTicks
                /\ (k \notin DOMAIN cache \/ cache'[k].val # cache[k].val)
                   => cache'[k].ttl = TtlTicks
          /\ MissReturns =>
                /\ done'.op = "p.findById" =>
                      /\ done'.res = {r \in products' : r.id = done'.id}
                      /\ cache'[getProductCacheKey(done'.id)].val
                            \in done'.res
                /\ done'.op = "p.findAll" =>
                      /\ Range(done'.page) \subseteq done'.pre
                      /\ cache'[FindAllKey(done'.q)].val = done'.page
                /\ done'.op = "r.findByProduct" =>
                      done'.page \in ReviewsGetMany(done'.q)]_vars
    /\ <>[](\A k \in DOMAIN cache : Current(k))

\* A listing that missed because the entry stored under its key had
\* expired, and returns the price the update wrote.
C16_Witness ==
    /\ done.op = "p.findAll"
    /\ ~done.hit
    /\ done.out = "ok"
    /\ done.src.again
    /\ done.page \in ProductsGetMany(done.q)
    /\ \E i \in 1..Len(done.page) :
          done.page[i].id = 1 /\ done.page[i].price = 2

====
